---- MODULE Spec2Model ----
(***************************************************************************)
(* Model of src/src/rsa/rsa.py: a textbook RSA implementation.  The module *)
(* holds no state of its own; what is modelled is a caller that invokes    *)
(* the module's functions and keeps the last call (op, args, ret) and,     *)
(* when a call consumes the result of the call before it, that earlier     *)
(* call (prev), as main() does with keys -> encrypt -> decrypt.            *)
(***************************************************************************)
EXTENDS Integers, Sequences, FiniteSets

VARIABLES op, args, ret, prev, primes

vars == <<op, args, ret, prev, primes>>

(* ----------------------------- bounds --------------------------------- *)
\* largest candidate handed to prime / gen_prime directly
MaxN == 400
\* largest phi_n / e / seed handed to encryption_exp and decryption_exp directly
MaxPhi == 60
\* largest digits argument of keys
MaxDigits == 2
\* keys is followed only while n * n fits the model checker's integers
MaxModulus == 40000
\* direct calls of encrypt: block, modulus and exponent ranges
MaxBlock == 12
MaxMod == 12
MaxExp == 4
\* texts: at most MaxLen characters, chunk sizes 1..MaxChunk
MaxLen == 2
MaxChunk == 2

\* character codes of the texts (0, an ordinary letter, the largest byte, one too large)
Chars == {0, 65, 255, 256}

Texts == UNION {[1..l -> Chars] : l \in 0..MaxLen}

(* ------------------------- results of a call --------------------------- *)
Ok(v) == [ok |-> TRUE, val |-> v]
\* a failed assert statement
Err == [ok |-> FALSE, val |-> "AssertionError"]

NoCall == [op |-> "none", args |-> <<>>, ret |-> Ok(0)]
NoPrimes == <<0, 0>>

(* --------------------------- arithmetic -------------------------------- *)
\* fractions.gcd: while b: a, b = b, a % b; return a
RECURSIVE gcd(_, _)
gcd(a, b) == IF b = 0 THEN a ELSE gcd(b, a % b)

\* the builtin pow(b, e, m), by squaring
RECURSIVE pow(_, _, _)
pow(b, e, m) ==
  IF e = 0 THEN 1 % m
  ELSE LET h == pow(b, e \div 2, m)
           sq == (h * h) % m
       IN IF e % 2 = 1 THEN (sq * (b % m)) % m ELSE sq

\* 10 ** k
RECURSIVE Pow10(_)
Pow10(k) == IF k = 0 THEN 1 ELSE 10 * Pow10(k - 1)

\* 1 << (8 * j)
RECURSIVE Shift8(_)
Shift8(j) == IF j = 0 THEN 1 ELSE 256 * Shift8(j - 1)

(* ------------------------- primality and search ------------------------ *)
prime(n) == pow(2, n - 1, n) = 1

RECURSIVE gen_prime_loop(_)
gen_prime_loop(n) == IF prime(n) THEN n ELSE gen_prime_loop(n + 1)

\* mutation: the scan starts one past the starting point
gen_prime_skip(start) == gen_prime_loop(start + 1)

gen_prime(start) == gen_prime_loop(start)

\* two_large_primes(digits) with both seeds None: every pair the random
\* draws can produce (digits > 0 is asserted by the caller below)
two_large_primes(digits) ==
  LET minimum == Pow10(digits - 1)
      middle == minimum * 5
      maximum == minimum * 10
      firsts == {gen_prime(s) : s \in minimum..middle}
      seconds == {gen_prime(s) : s \in middle..maximum}
  IN {<<f, IF f = s THEN gen_prime(f + 1) ELSE s>> : f \in firsts, s \in seconds}

(* ---------------------------- exponents -------------------------------- *)
\* the loop of encryption_exp from x = start
RECURSIVE encryption_exp(_, _)
encryption_exp(phi_n, x) ==
  IF gcd(x, phi_n) # 1 /\ x > 1 THEN encryption_exp(phi_n, x - 1) ELSE x

\* the starting points of encryption_exp: the seed, or a random draw
encryption_exp_starts(phi_n, seeded, seed) ==
  IF seeded THEN {seed} ELSE (phi_n \div 10)..phi_n

RECURSIVE gcd_terms_loop(_, _, _)
gcd_terms_loop(num, modulus, coefficients) ==
  IF modulus # 0
  THEN gcd_terms_loop(modulus, num % modulus, Append(coefficients, num \div modulus))
  ELSE coefficients

gcd_terms(e, phi_n) == gcd_terms_loop(phi_n, e, <<>>)

reversed(s) == [i \in 1..Len(s) |-> s[Len(s) + 1 - i]]

\* the for loop of decryption_exp; python index i is position i + 1 here
RECURSIVE running_sum_loop(_, _, _)
running_sum_loop(coeffs, running_sum, i) ==
  IF i > Len(coeffs) THEN running_sum
  ELSE running_sum_loop(coeffs,
         Append(running_sum, running_sum[i] * coeffs[i] + running_sum[i - 1]),
         i + 1)

Max2(a, b) == IF a >= b THEN a ELSE b
Min2(a, b) == IF a <= b THEN a ELSE b

\* mutation: the sign of the coefficient is not looked at
decryption_exp_nosign(e, phi_n) ==
  LET coeffs == reversed(gcd_terms(e, phi_n))
      running_sum == running_sum_loop(coeffs, <<0, 1>>, 2)
      l == Len(running_sum)
  IN Max2(running_sum[l - 1], running_sum[l])

decryption_exp(e, phi_n) ==
  LET coeffs == reversed(gcd_terms(e, phi_n))
      running_sum == running_sum_loop(coeffs, <<0, 1>>, 2)
      l == Len(running_sum)
      x == Max2(running_sum[l - 1], running_sum[l])
      y == Min2(running_sum[l - 1], running_sum[l])
      sanity_check == x * e - y * phi_n
  IN IF sanity_check > 0 THEN x ELSE (0 - x) + phi_n * (phi_n \div x)

\* the seed keys passes to encryption_exp, 2**8-1
ExponentSeed == 255

\* keys after two_large_primes has returned p, q
keys(p, q) ==
  LET n == p * q
      phi == (p - 1) * (q - 1)
      e == encryption_exp(phi, ExponentSeed)
      d == decryption_exp(e, phi)
  IN <<<<n, e>>, <<n, d>>>>

(* ------------------------------ cipher --------------------------------- *)
\* mutation: the assertion admits message = n
encrypt_le(message, publickey) ==
  LET n == publickey[1]
      e == publickey[2]
  IN IF message <= n THEN Ok(pow(message, e, n)) ELSE Err

encrypt(message, publickey) ==
  LET n == publickey[1]
      e == publickey[2]
  IN IF message < n THEN Ok(pow(message, e, n)) ELSE Err

decrypt(encrypted, privatekey) ==
  LET n == privatekey[1]
      d == privatekey[2]
  IN pow(encrypted, d, n)

(* ---------------------------- block codec ------------------------------ *)
RECURSIVE padded_chunk(_, _, _, _)
\* the inner for loop: characters i .. of one chunk, j = position in chunk
padded_chunk(message, chunk_size, i, j) ==
  IF j >= chunk_size THEN 0
  ELSE (IF i <= Len(message) THEN message[i] * Shift8(j) ELSE 0)
       + padded_chunk(message, chunk_size, i + 1, j + 1)

padded(message, chunk_size) ==
  IF \E i \in 1..Len(message) : message[i] > 255 THEN Err
  ELSE LET count == (Len(message) + chunk_size - 1) \div chunk_size
       IN Ok([c \in 1..count |->
                padded_chunk(message, chunk_size, (c - 1) * chunk_size + 1, 0)])

RECURSIVE unpadded_chunk(_)
unpadded_chunk(chunk) ==
  IF chunk > 255 THEN <<chunk % 256>> \o unpadded_chunk(chunk \div 256)
  ELSE <<chunk>>

RECURSIVE unpadded(_)
unpadded(chunks) ==
  IF chunks = <<>> THEN <<>>
  ELSE unpadded_chunk(Head(chunks)) \o unpadded(Tail(chunks))

encrypt_message(message, publickey, chunk_size) ==
  LET chunked == padded(message, chunk_size)
  IN IF ~chunked.ok THEN Err
     ELSE IF \E i \in 1..Len(chunked.val) : ~encrypt(chunked.val[i], publickey).ok
          THEN Err
          ELSE Ok([i \in 1..Len(chunked.val) |-> encrypt(chunked.val[i], publickey).val])

(* ------------------------------ the caller ----------------------------- *)
\* A behaviour is one run of a caller: its first call is made from the
\* initial state, later calls consume the result of the call before them.
Init ==
  /\ op = "none"
  /\ args = <<>>
  /\ ret = Ok(0)
  /\ prev = NoCall
  /\ primes = NoPrimes

This == [op |-> op, args |-> args, ret |-> ret]

CallPrime ==
  /\ op = "none"
  /\ \E n \in 1..MaxN :
    /\ op' = "prime"
    /\ args' = <<n>>
    /\ ret' = Ok(prime(n))
    /\ prev' = NoCall
    /\ primes' = NoPrimes

CallGenPrime ==
  /\ op = "none"
  /\ \E start \in 1..MaxN :
    /\ op' = "gen_prime"
    /\ args' = <<start>>
    /\ ret' = Ok(gen_prime(start))
    /\ prev' = NoCall
    /\ primes' = NoPrimes

CallEncryptionExp ==
  /\ op = "none"
  /\ \E phi_n \in 1..MaxPhi, seeded \in BOOLEAN, seed \in 0..MaxPhi :
    \E start \in encryption_exp_starts(phi_n, seeded, seed) :
      /\ op' = "encryption_exp"
      /\ args' = <<phi_n, start>>
      /\ ret' = Ok(encryption_exp(phi_n, start))
      /\ prev' = NoCall
      /\ primes' = NoPrimes

CallDecryptionExp ==
  /\ op = "none"
  /\ \E e \in 1..MaxPhi, phi_n \in 1..MaxPhi :
    /\ op' = "decryption_exp"
    /\ args' = <<e, phi_n>>
    /\ ret' = Ok(decryption_exp(e, phi_n))
    /\ prev' = NoCall
    /\ primes' = NoPrimes

\* keys(digits): the assertion of two_large_primes fails for digits <= 0
CallKeysFails ==
  /\ op = "none"
  /\ \E digits \in {0} :
    /\ op' = "keys"
    /\ args' = <<digits>>
    /\ ret' = Err
    /\ prev' = NoCall
    /\ primes' = NoPrimes

CallKeys ==
  /\ op = "none"
  /\ \E digits \in 1..MaxDigits :
    \E pq \in two_large_primes(digits) :
      /\ pq[1] * pq[2] <= MaxModulus
      /\ op' = "keys"
      /\ args' = <<digits>>
      /\ ret' = Ok(keys(pq[1], pq[2]))
      /\ prev' = NoCall
      /\ primes' = pq

\* encrypt called directly with some key
CallEncrypt ==
  /\ op = "none"
  /\ \E message \in 0..MaxBlock, n \in 1..MaxMod, e \in 0..MaxExp :
    /\ op' = "encrypt"
    /\ args' = <<message, <<n, e>>>>
    /\ ret' = encrypt(message, <<n, e>>)
    /\ prev' = NoCall
    /\ primes' = NoPrimes

\* encrypt called with the public key keys has just returned
CallEncryptWithKeys ==
  /\ op = "keys"
  /\ ret.ok
  /\ LET publickey == ret.val[1]
         n == publickey[1]
     IN \E message \in (0..MaxBlock) \cup {n - 1, n, n + 1} :
          /\ op' = "encrypt"
          /\ args' = <<message, publickey>>
          /\ ret' = encrypt(message, publickey)
          /\ prev' = This
          /\ primes' = primes

\* decrypt called on that ciphertext with the private key of the same keypair
CallDecrypt ==
  /\ op = "encrypt"
  /\ prev.op = "keys"
  /\ ret.ok
  /\ LET privatekey == prev.ret.val[2]
     IN /\ op' = "decrypt"
        /\ args' = <<ret.val, privatekey>>
        /\ ret' = Ok(decrypt(ret.val, privatekey))
        /\ prev' = This
        /\ primes' = primes

CallPadded ==
  /\ op = "none"
  /\ \E message \in Texts, chunk_size \in 1..MaxChunk :
    /\ op' = "padded"
    /\ args' = <<message, chunk_size>>
    /\ ret' = padded(message, chunk_size)
    /\ prev' = NoCall
    /\ primes' = NoPrimes

\* unpadded called on the chunks padded has just returned
CallUnpadded ==
  /\ op = "padded"
  /\ ret.ok
  /\ op' = "unpadded"
  /\ args' = <<ret.val>>
  /\ ret' = Ok(unpadded(ret.val))
  /\ prev' = This
  /\ primes' = NoPrimes

\* encrypt_message called with the public key keys has just returned
CallEncryptMessage ==
  /\ op = "keys"
  /\ ret.ok
  /\ \E message \in Texts, chunk_size \in 1..MaxChunk :
       /\ op' = "encrypt_message"
       /\ args' = <<message, ret.val[1], chunk_size>>
       /\ ret' = encrypt_message(message, ret.val[1], chunk_size)
       /\ prev' = This
       /\ primes' = primes

Next ==
  \/ CallPrime
  \/ CallGenPrime
  \/ CallEncryptionExp
  \/ CallDecryptionExp
  \/ CallKeysFails
  \/ CallKeys
  \/ CallEncrypt
  \/ CallEncryptWithKeys
  \/ CallDecrypt
  \/ CallPadded
  \/ CallUnpadded
  \/ CallEncryptMessage

Spec == Init /\ [][Next]_vars

(* ------------------------------ properties ----------------------------- *)
\* n is a prime number, by trial division
IsPrime(n) == n >= 2 /\ \A k \in 2..(n - 1) : n % k # 0

\* b^e mod n as the product of e factors b, the factors split in two halves
RECURSIVE PowerMod(_, _, _)
PowerMod(b, e, n) ==
  IF e = 0 THEN 1 % n
  ELSE IF e = 1 THEN b % n
  ELSE (PowerMod(b, e \div 2, n) * PowerMod(b, e - (e \div 2), n)) % n

\* C1: decoding the blocks that padded produced for a text gives back
\* exactly that text, character codes 0 and the empty text included.
C1_RoundTrip ==
  (op = "unpadded" /\ prev.op = "padded") => ret.val = prev.args[1]

\* C2: for e, phi_n >= 1 with gcd 1 (and phi_n >= 2, so that some d in range
\* exists) decryption_exp returns d with 0 < d < phi_n and e*d mod phi_n = 1.
C2_InverseInRange ==
  (op = "decryption_exp" /\ args[2] >= 2 /\ gcd(args[1], args[2]) = 1) =>
    /\ ret.ok
    /\ 0 < ret.val
    /\ ret.val < args[2]
    /\ (args[1] * ret.val) % args[2] = 1

\* C3: for a keypair returned by keys and a block x with 0 <= x < n that is
\* coprime to n, decrypting the encryption of x gives x.
C3_RsaIdentity ==
  (/\ op = "decrypt"
   /\ prev.op = "encrypt"
   /\ 0 <= prev.args[1]
   /\ prev.args[1] < args[2][1]
   /\ gcd(prev.args[1], args[2][1]) = 1)
  => ret.val = prev.args[1]

\* C4: a keypair returned by keys has gcd(e, phi) = 1 and e*d mod phi = 1
\* for phi = (p-1)*(q-1), also when phi is below the exponent seed 255.
C4_KeypairInvariant ==
  (op = "keys" /\ ret.ok) =>
    LET phi == (primes[1] - 1) * (primes[2] - 1)
        e == ret.val[1][2]
        d == ret.val[2][2]
    IN /\ gcd(e, phi) = 1
       /\ ((e % phi) * (d % phi)) % phi = 1

\* C5: prime returns true for every prime number n >= 2.
C5_NoFalseNegative ==
  (op = "prime" /\ IsPrime(args[1])) => ret.val

\* C6: encrypt fails when block >= n and returns block^e mod n when
\* 0 <= block < n; encrypt_message fails whenever some block of the padded
\* text is >= n.
C6_EncryptPrecondition ==
  /\ op = "encrypt" =>
       LET message == args[1]
           n == args[2][1]
           e == args[2][2]
       IN /\ message >= n => ~ret.ok
          /\ (0 <= message /\ message < n) =>
               (ret.ok /\ ret.val = PowerMod(message, e, n))
  /\ op = "encrypt_message" =>
       LET chunked == padded(args[1], args[3])
           n == args[2][1]
       IN (chunked.ok /\ \E i \in 1..Len(chunked.val) : chunked.val[i] >= n)
            => ~ret.ok

\* C6 happens: a block equal to the modulus of a generated key is refused.
C6_Witness ==
  /\ op = "encrypt"
  /\ prev.op = "keys"
  /\ args[1] = args[2][1]
  /\ ~ret.ok

\* C7: when gcd(e, phi_n) # 1, decryption_exp reports an error rather than
\* returning an integer.
C7_MissingInverseReported ==
  (op = "decryption_exp" /\ gcd(args[1], args[2]) # 1) => ~ret.ok

\* C8: when the decrement loop of encryption_exp ends at 1 the failure is an
\* error, and keys returns no keypair with e = 1.
C8_SelectionFailureLoud ==
  /\ (op = "encryption_exp" /\ args[2] > 1) => ~(ret.ok /\ ret.val = 1)
  /\ (op = "keys" /\ ret.ok) => ret.val[1][2] # 1

C10_PositiveInverse ==
  (/\ op = "decryption_exp"
   /\ 1 <= args[1]
   /\ args[1] < args[2]
   /\ gcd(args[1], args[2]) = 1)
  => (ret.val > 0 /\ (args[1] * ret.val) % args[2] = 1)

\* C10 happens: the second branch returned an exponent that is not below phi_n.
C10_Witness ==
  /\ op = "decryption_exp"
  /\ 1 <= args[1]
  /\ args[1] < args[2]
  /\ gcd(args[1], args[2]) = 1
  /\ ret.val > args[2]

====
